---- MODULE Spec2Model ----
(***************************************************************************)
(* Attendance reconciliation and classification engine of                  *)
(* adms_wrapper/core/data_processing.py, and the subtotals of              *)
(* adms_wrapper/core/excel_logic.py.                                       *)
(*                                                                         *)
(* Instants (pd.Timestamp) are minutes since 00:00 of day 0; day 0 is a    *)
(* Monday, so that day 5 is Saturday 2025-08-30, day 6 Sunday 2025-08-31   *)
(* and day 7 Monday 2025-09-01 (the dates of run_time_tests.py).  Dates    *)
(* are day numbers, times of day and durations are minutes.  Python's      *)
(* 0-based positions i, j, candidate_index are 1-based here; 0 stands for  *)
(* candidate_index = None.                                                 *)
(***************************************************************************)
EXTENDS Integers, Sequences, FiniteSets, TLC

\* ------------------------------------------------------------------ bounds
MaxPunches == 3
MaxBatch == 2
NumDays == 3

\* --------------------------------------------------------------- time base
NaT == -1
\* a shift time that pd.to_datetime cannot parse, kept as str(val)
Unparseable == -2

Minutes(m) == m
Hours(h) == h * 60
DaysDelta(d) == d * 1440

\* a wall-clock time h:m as a time of day
HM(h, m) == Hours(h) + Minutes(m)
\* pd.to_datetime(f"{day} {time}")
At(day, tod) == DaysDelta(day) + tod
\* Timestamp.date()
DateOf(ts) == ts \div 1440
\* Timestamp.weekday(), 0 = Monday
Weekday(day) == day % 7

SUNDAY_WEEKDAY == 6

is_weekend(day) == Weekday(day) = SUNDAY_WEEKDAY

Min2(a, b) == IF a <= b THEN a ELSE b

\* ---------------------------------------------------------------- settings
\* The settings table holds strings; int(get_setting(k) or d) parses them.
IntOf ==
    [s \in {"0", "1", "5", "8", "15", "24"} |->
        CASE s = "0" -> 0
          [] s = "1" -> 1
          [] s = "5" -> 5
          [] s = "8" -> 8
          [] s = "15" -> 15
          [] s = "24" -> 24]

\* int(s or d) raises ValueError exactly when s is non-empty and not a number
IntRaises(s) == s /= "" /\ s \notin DOMAIN IntOf
IntOrDefault(s, d) == IF s = "" THEN d ELSE IntOf[s]

DefaultCapHours == 8
DefaultGraceMinutes == 15

\* get_setting(key): the stored string, "" when the key has no row
get_setting(st, key) == IF key \in DOMAIN st THEN st[key] ELSE ""

\* the configured cap and grace ignored
CapAndGraceDefaults(st) ==
    [cap_hours |-> DefaultCapHours, grace_minutes |-> DefaultGraceMinutes]

\* lines 113-121 and 366-371: both values parse, or both fall back
CapAndGrace(st) ==
    LET c == get_setting(st, "shift_cap_hours")
        g == get_setting(st, "late_checkout_grace_minutes")
    IN  IF IntRaises(c) \/ IntRaises(g)
        THEN [cap_hours |-> DefaultCapHours, grace_minutes |-> DefaultGraceMinutes]
        ELSE [cap_hours |-> IntOrDefault(c, DefaultCapHours),
              grace_minutes |-> IntOrDefault(g, DefaultGraceMinutes)]

\* the configured cap ignored
CapOnlyDefault(st) == DefaultCapHours

\* lines 173-176 and 377-380: the cap alone
CapOnly(st) ==
    LET c == get_setting(st, "shift_cap_hours")
    IN  IF IntRaises(c) THEN DefaultCapHours ELSE IntOrDefault(c, DefaultCapHours)

\* "x in ('zero')" is substring containment in the string "zero"
ZeroSubstrings == {"", "z", "e", "r", "o", "ze", "er", "ro", "zer", "ero", "zero"}
Lower(s) == CASE s = "ZERO" -> "zero" [] s = "Zero" -> "zero" [] s = "NORMAL" -> "normal"
              [] OTHER -> s
\* the zeroing policy never applied
ShouldZeroShiftNever(st) == FALSE
ShouldZeroShift(st) == Lower(get_setting(st, "shift_cap_type")) \in ZeroSubstrings
\* the no-shift path following shift_cap_type as the shift path does
ShouldZeroNoShiftByCapType(st) == ShouldZeroShift(st)
\* the no-shift path reads the key zero_hours_when_capped, "true" when unset
ShouldZeroNoShift(st) ==
    LET v == get_setting(st, "zero_hours_when_capped")
    IN  Lower(IF v = "" THEN "true" ELSE v) \in {"true", "1", "yes", "on"}

\* ------------------------------------------------------------ shift lookup
NoShift == [shift_start |-> NaT, shift_end |-> NaT]

\* the default template looked up before the employee's own assignment
ShiftInfoDefaultFirst(sd, emp) ==
    IF "default" \in DOMAIN sd THEN sd["default"]
    ELSE IF emp \in DOMAIN sd THEN sd[emp]
    ELSE NoShift

\* shift_dict.get(emp) or shift_dict.get("default")
ShiftInfo(sd, emp) ==
    IF emp \in DOMAIN sd THEN sd[emp]
    ELSE IF "default" \in DOMAIN sd THEN sd["default"]
    ELSE NoShift

\* pd.to_datetime(t).time() raises on None and on an unparseable string
ToTimeRaises(t) == t = NaT \/ t = Unparseable
\* lines 105-106 and 358-359, outside any try block
ShiftRaises(sh) ==
    sh /= NoShift /\ (ToTimeRaises(sh.shift_start) \/ ToTimeRaises(sh.shift_end))

\* the shift end left on the day of the shift start
ShiftEndDtSameDay(day, sh) == At(day, sh.shift_end)

\* shift_start_dt / shift_end_dt anchored to a day, end moved to the next day
\* when it is not after the start
ShiftStartDt(day, sh) == At(day, sh.shift_start)
ShiftEndDt(day, sh) ==
    IF At(day, sh.shift_end) <= At(day, sh.shift_start)
    THEN At(day, sh.shift_end) + DaysDelta(1)
    ELSE At(day, sh.shift_end)

\* ---------------------------------------------------------- classification
LateInGraceMinutes == 15

ZeroLiteral == [hh |-> 0, mm |-> 0, ss |-> 0, padded |-> FALSE]

\* the duration formatted as it is, negative or missing included
FormatTimedeltaUnclamped(td) ==
    [hh |-> (td * 60) \div 3600,
     mm |-> ((td * 60) % 3600) \div 60,
     ss |-> ((td * 60) % 3600) % 60,
     padded |-> TRUE]

\* _format_timedelta: "0:00:00" for a missing or negative duration, else
\* zero-padded hours, minutes, seconds of the whole seconds
_format_timedelta(td) ==
    IF td = NaT \/ td < 0 THEN ZeroLiteral
    ELSE LET total_seconds == td * 60
         IN  [hh |-> total_seconds \div 3600,
              mm |-> (total_seconds % 3600) \div 60,
              ss |-> (total_seconds % 3600) % 60,
              padded |-> TRUE]

Result(ts, flagged, early, e, flag, late) ==
    [time_spent |-> ts, no_checkout |-> flagged, early_checkout |-> early,
     end_time |-> e, shift_flag |-> flag, late_in |-> late]

\* the chain with late in tested before early out
ShiftFlagLateFirst(is_capped, early_out, is_late_in, is_overtime) ==
    IF is_capped THEN "no checkout"
    ELSE IF is_late_in THEN "late in"
    ELSE IF early_out THEN "early out"
    ELSE IF is_overtime THEN "overtime"
    ELSE "normal"

\* the status chosen by the if/elif chain of lines 144-154
ShiftFlag(is_capped, early_out, is_late_in, is_overtime) ==
    IF is_capped THEN "no checkout"
    ELSE IF early_out THEN "early out"
    ELSE IF is_late_in THEN "late in"
    ELSE IF is_overtime THEN "overtime"
    ELSE "normal"

\* the branch taken with a resolved shift (lines 104-170)
ClassifyWithShift(start_time, end_time, day, sh, st) ==
    LET shift_start_dt == ShiftStartDt(day, sh)
        shift_end_dt == ShiftEndDt(day, sh)
        cg == CapAndGrace(st)
        is_late_in == start_time > shift_start_dt + Minutes(LateInGraceMinutes)
        overtime_cutoff == shift_end_dt + Minutes(cg.grace_minutes)
        cap_deadline == shift_end_dt + Minutes(cg.grace_minutes) + Hours(cg.cap_hours)
        is_capped == end_time = NaT \/ end_time > cap_deadline
        is_overtime == end_time /= NaT /\ end_time > overtime_cutoff /\ ~is_capped
        should_zero == ShouldZeroShift(st)
        early_out == end_time /= NaT /\ end_time < shift_end_dt
        shift_flag == ShiftFlag(is_capped, early_out, is_late_in, is_overtime)
        effective_end_time ==
            Min2(IF end_time /= NaT THEN end_time ELSE cap_deadline, cap_deadline)
    IN  IF is_capped
        THEN IF should_zero
             THEN Result(ZeroLiteral, TRUE, FALSE, cap_deadline, "no checkout", is_late_in)
             ELSE Result(_format_timedelta(effective_end_time - start_time), TRUE, FALSE,
                         cap_deadline, "no checkout", is_late_in)
        ELSE Result(_format_timedelta(end_time - start_time), FALSE, early_out,
                    end_time, shift_flag, is_late_in)

\* the fallback without any shift (lines 172-203)
ClassifyNoShift(start_time, end_time, st) ==
    LET cap_duration == Hours(CapOnly(st))
        cap_deadline == start_time + cap_duration
        is_capped == end_time = NaT \/ (end_time - start_time) > cap_duration
        should_zero == ShouldZeroNoShift(st)
        effective_end_time ==
            Min2(IF end_time /= NaT THEN end_time ELSE cap_deadline, cap_deadline)
    IN  IF is_capped
        THEN IF should_zero
             THEN Result(ZeroLiteral, TRUE, FALSE, cap_deadline, "no checkout", FALSE)
             ELSE Result(_format_timedelta(effective_end_time - start_time), TRUE, FALSE,
                         cap_deadline, "no checkout", FALSE)
        ELSE Result(_format_timedelta(end_time - start_time), FALSE, FALSE,
                    end_time, "normal", FALSE)

calculate_time_spent_and_flag(row, sd, st) ==
    LET start_time == row.start_time
        end_time ==
            IF row.end_time /= NaT /\ row.end_time <= row.start_time
            THEN row.end_time + DaysDelta(1)
            ELSE row.end_time
        sh == ShiftInfo(sd, row.employee_id)
    IN  IF start_time = NaT
        THEN Result(ZeroLiteral, FALSE, FALSE, row.end_time, "absent", FALSE)
        ELSE IF is_weekend(row.day)
        THEN IF end_time = NaT
             THEN Result(ZeroLiteral, TRUE, FALSE, end_time, "weekend", FALSE)
             ELSE Result(_format_timedelta(end_time - start_time), FALSE, FALSE,
                         end_time, "weekend", FALSE)
        ELSE IF sh /= NoShift
        THEN ClassifyWithShift(start_time, end_time, row.day, sh, st)
        ELSE ClassifyNoShift(start_time, end_time, st)

\* the call raises instead of returning: an unparseable time of the resolved
\* shift on a row that reaches the shift branch
ClassifyRaises(row, sd) ==
    /\ row.start_time /= NaT
    /\ ~is_weekend(row.day)
    /\ ShiftRaises(ShiftInfo(sd, row.employee_id))

\* ------------------------------------------------------- sequence helpers
\* the ids the model draws from, in Python's string order
EmployeeOrder == <<"E1", "E2", "E3", "default">>
Rank(e) == CHOOSE k \in 1..Len(EmployeeOrder) : EmployeeOrder[k] = e

\* sort key comparisons: by timestamp, and by (employee_id, day)
RowLeq(by, a, b) ==
    IF by = "timestamp" THEN a.timestamp <= b.timestamp
    ELSE \/ Rank(a.employee_id) < Rank(b.employee_id)
         \/ a.employee_id = b.employee_id /\ a.day <= b.day

\* the punches left in the order they arrived
StableSortUnsorted(s, by) == s

RECURSIVE InsertSorted(_, _, _)
InsertSorted(x, s, by) ==
    IF s = <<>> THEN <<x>>
    ELSE IF RowLeq(by, s[Len(s)], x) THEN Append(s, x)
    ELSE Append(InsertSorted(x, SubSeq(s, 1, Len(s) - 1), by), s[Len(s)])

\* a stable ascending sort (sort_values) on the named key
RECURSIVE StableSort(_, _)
StableSort(s, by) ==
    IF s = <<>> THEN <<>>
    ELSE InsertSorted(s[Len(s)], StableSort(SubSeq(s, 1, Len(s) - 1), by), by)

\* the concatenation of a sequence of sequences
RECURSIVE Flatten(_)
Flatten(ss) == IF ss = <<>> THEN <<>> ELSE Head(ss) \o Flatten(Tail(ss))

SeqRange(s) == {s[k] : k \in 1..Len(s)}

\* sorted(ids)
SortedIds(ids) == SelectSeq(EmployeeOrder, LAMBDA e : e \in ids)

\* pd.date_range(start, end, freq="D"): empty when end < start
RECURSIVE DateRange(_, _)
DateRange(a, b) == IF a > b THEN <<>> ELSE <<a>> \o DateRange(a + 1, b)

\* the Sundays kept in the calendar
NonSundaysAll(days) == days

NonSundays(days) == SelectSeq(days, LAMBDA d : Weekday(d) /= SUNDAY_WEEKDAY)

\* ------------------------------------------------------ get_shift_mappings
\* _to_time_str on a TIME column value (a timedelta since midnight): the
\* %H:%M:%S of 1970-01-01 + val, which wraps at 24 hours
_to_time_str(val) ==
    IF val = NaT THEN NaT
    ELSE IF val = Unparseable THEN Unparseable
    ELSE val % DaysDelta(1)

\* rows of user_shift_mapping to the dictionary keyed by employee id; a later
\* row of the same user replaces an earlier one, an empty id is skipped
RECURSIVE get_shift_mappings(_)
get_shift_mappings(rows) ==
    IF rows = <<>> THEN <<>>
    ELSE LET m == rows[Len(rows)]
             rest == get_shift_mappings(SubSeq(rows, 1, Len(rows) - 1))
             entry == [shift_start |-> _to_time_str(m.shift_start),
                       shift_end |-> _to_time_str(m.shift_end)]
         IN  IF m.user_id = "" THEN rest
             ELSE [k \in DOMAIN rest \cup {m.user_id} |->
                      IF k = m.user_id THEN entry ELSE rest[k]]

\* get_comprehensive_employee_data(): the ids of the mapping tables, sorted
get_comprehensive_employee_data(names, rows) ==
    SortedIds(names \cup {rows[k].user_id : k \in 1..Len(rows)})

\* ---------------------------------------------------------- reconciliation
\* the boundary without the cap term: the next shift start, or a day after
\* the start
BoundaryDtNoCap(ts, sh, st) ==
    IF sh /= NoShift
    THEN ShiftStartDt(DateOf(ts), sh) + DaysDelta(1)
    ELSE ts + DaysDelta(1)

\* boundary_dt of the session started at st (lines 354-381)
BoundaryDt(ts, sh, st) ==
    IF sh /= NoShift
    THEN LET shift_start_dt == ShiftStartDt(DateOf(ts), sh)
             shift_end_dt == ShiftEndDt(DateOf(ts), sh)
             cg == CapAndGrace(st)
             cap_dt == shift_end_dt + Minutes(cg.grace_minutes) + Hours(cg.cap_hours)
             next_shift_start_dt == shift_start_dt + DaysDelta(1)
         IN  Min2(cap_dt, next_shift_start_dt)
    ELSE ts + Hours(CapOnly(st))

\* the scan with a punch on the boundary still accepted as a candidate
RECURSIVE ScanCandidateInclusive(_, _, _, _, _)
ScanCandidateInclusive(df, ts, boundary_dt, j, candidate_index) ==
    IF j > Len(df) THEN candidate_index
    ELSE IF df[j].timestamp <= ts
         THEN ScanCandidateInclusive(df, ts, boundary_dt, j + 1, candidate_index)
    ELSE IF df[j].timestamp > boundary_dt THEN candidate_index
    ELSE ScanCandidateInclusive(df, ts, boundary_dt, j + 1, j)

\* the scan stopping at the first candidate instead of the latest
RECURSIVE ScanCandidateFirst(_, _, _, _, _)
ScanCandidateFirst(df, ts, boundary_dt, j, candidate_index) ==
    IF j > Len(df) THEN candidate_index
    ELSE IF df[j].timestamp <= ts
         THEN ScanCandidateFirst(df, ts, boundary_dt, j + 1, candidate_index)
    ELSE IF df[j].timestamp >= boundary_dt THEN candidate_index
    ELSE j

\* the scan that takes the latest later punch whatever the boundary
ScanCandidateUnbounded(df, ts, boundary_dt, j, candidate_index) ==
    LET later == {q \in j..Len(df) : df[q].timestamp > ts}
    IN  IF later = {} THEN candidate_index
        ELSE CHOOSE q \in later : \A r \in later : r <= q

\* the inner while loop (lines 383-393): the candidate_index it ends with
RECURSIVE ScanCandidate(_, _, _, _, _)
ScanCandidate(df, ts, boundary_dt, j, candidate_index) ==
    IF j > Len(df) THEN candidate_index
    ELSE IF df[j].timestamp <= ts
         THEN ScanCandidate(df, ts, boundary_dt, j + 1, candidate_index)
    ELSE IF df[j].timestamp >= boundary_dt THEN candidate_index
    ELSE ScanCandidate(df, ts, boundary_dt, j + 1, j)

\* the cursor left where it is
NextCursorStay(cursor, candidate_index) == cursor

\* the cursor advanced by one punch whatever was paired
NextCursorStepOne(cursor, candidate_index) == cursor + 1

\* lines 408 and 421: past the candidate, or past the start alone
NextCursor(cursor, candidate_index) ==
    IF candidate_index /= 0 THEN candidate_index + 1 ELSE cursor + 1

WorkedRow(e, st_row, end_ts, end_sn) ==
    [employee_id |-> e, day |-> DateOf(st_row.timestamp), start_time |-> st_row.timestamp,
     end_time |-> end_ts, start_device_sn |-> st_row.sn, end_device_sn |-> end_sn,
     work_status |-> "worked"]

\* lines 336-337: ids stripped, rows with an empty id dropped
df_att_of(att) == SelectSeq(att, LAMBDA p : p.employee_id /= "")

\* every punch of the batch taken as the employee's
GroupOfAll(df, e) == df
\* df_att.groupby("employee_id"): the rows of one employee, in batch order
GroupOf(df, e) == SelectSeq(df, LAMBDA p : p.employee_id = e)

\* lines 351-421: the session started at the cursor, with the shift, the
\* boundary and the candidate it was built from
SessionAt(e, df, cursor, sd, st) ==
    LET st_row == df[cursor]
        shift_info == ShiftInfo(sd, e)
        boundary_dt == BoundaryDt(st_row.timestamp, shift_info, st)
        candidate_index == ScanCandidate(df, st_row.timestamp, boundary_dt, cursor + 1, 0)
    IN  [shift_info |-> shift_info,
         candidate_index |-> candidate_index,
         row |-> IF candidate_index /= 0
                 THEN WorkedRow(e, st_row, df[candidate_index].timestamp,
                                df[candidate_index].sn)
                 ELSE WorkedRow(e, st_row, NaT, "")]

\* the outer while loop run to its end from a cursor
RECURSIVE ReconcileFrom(_, _, _, _, _)
ReconcileFrom(e, df, cursor, sd, st) ==
    IF cursor > Len(df) THEN <<>>
    ELSE LET s == SessionAt(e, df, cursor, sd, st)
         IN  <<s.row>> \o ReconcileFrom(e, df, NextCursor(cursor, s.candidate_index), sd, st)

\* lines 345-421 as one run: the worked rows of every group, in key order
Reconcile(att, sd, st) ==
    LET df == df_att_of(att)
        ids == SortedIds({df[k].employee_id : k \in 1..Len(df)})
    IN  Flatten([k \in 1..Len(ids) |->
                    ReconcileFrom(ids[k], StableSort(GroupOf(df, ids[k]), "timestamp"), 1,
                                  sd, st)])

\* the run raises at line 358 in the group of an employee whose resolved
\* shift has an unparseable time
ReconcileRaises(att, sd) ==
    \E k \in 1..Len(df_att_of(att)) :
        ShiftRaises(ShiftInfo(sd, df_att_of(att)[k].employee_id))

AbsentRecord(e, day) ==
    [employee_id |-> e, day |-> day, start_time |-> NaT, end_time |-> NaT,
     start_device_sn |-> "", end_device_sn |-> "", time_spent |-> ZeroLiteral,
     work_status |-> "absent", no_checkout |-> FALSE, early_checkout |-> FALSE,
     shift_flag |-> "absent", late_in |-> FALSE]

\* lines 426-434: the classified columns added to a worked row
ClassifiedRow(row, sd, st) ==
    LET r == calculate_time_spent_and_flag(row, sd, st)
    IN  [employee_id |-> row.employee_id, day |-> row.day, start_time |-> row.start_time,
         end_time |-> r.end_time, start_device_sn |-> row.start_device_sn,
         end_device_sn |-> row.end_device_sn, time_spent |-> r.time_spent,
         work_status |-> row.work_status, no_checkout |-> r.no_checkout,
         early_checkout |-> r.early_checkout, shift_flag |-> r.shift_flag,
         late_in |-> r.late_in]

\* -------------------------------------------------------- absence filling
generate_absent_days_for_date_range(start_date, end_date, names, rows) ==
    LET all_employees == get_comprehensive_employee_data(names, rows)
        all_days == NonSundays(DateRange(start_date, end_date))
        ForEmployee(e) ==
            IF e = "" THEN <<>>
            ELSE [k \in 1..Len(all_days) |-> AbsentRecord(e, all_days[k])]
    IN  Flatten([k \in 1..Len(all_employees) |-> ForEmployee(all_employees[k])])

_get_absent_days_fallback(start_date, end_date, names, rows) ==
    IF start_date /= NaT /\ end_date /= NaT
    THEN generate_absent_days_for_date_range(start_date, end_date, names, rows)
    ELSE <<>>

MinDay(ws) == CHOOSE d \in {ws[k].day : k \in 1..Len(ws)} :
                 \A k \in 1..Len(ws) : d <= ws[k].day
MaxDay(ws) == CHOOSE d \in {ws[k].day : k \in 1..Len(ws)} :
                 \A k \in 1..Len(ws) : d >= ws[k].day

\* the worked records alone, no absent day filled in
CompleteRecordsWorkedOnly(ws, start_date, end_date, names, rows) == ws

generate_complete_records(ws, start_date, end_date, names, rows) ==
    IF ws = <<>>
    THEN _get_absent_days_fallback(start_date, end_date, names, rows)
    ELSE LET all_days ==
                 NonSundays(IF start_date /= NaT /\ end_date /= NaT
                            THEN DateRange(start_date, end_date)
                            ELSE DateRange(MinDay(ws), MaxDay(ws)))
             all_employees == SortedIds({ws[k].employee_id : k \in 1..Len(ws)})
             ForDay(e, d) ==
                 LET day_data == SelectSeq(ws, LAMBDA r : r.employee_id = e /\ r.day = d)
                 IN  IF day_data /= <<>> THEN day_data ELSE <<AbsentRecord(e, d)>>
             ForEmployee(e) ==
                 IF e = "" THEN <<>>
                 ELSE Flatten([k \in 1..Len(all_days) |-> ForDay(e, all_days[k])])
         IN  Flatten([k \in 1..Len(all_employees) |-> ForEmployee(all_employees[k])])

\* ------------------------------------------------------------ period report
\* filter_out_sundays_from_df on the returned records, which hold no subtotal
\* row yet
filter_out_sundays_from_df(df) == SelectSeq(df, LAMBDA r : Weekday(r.day) /= 6)

\* the columns of a record that create_subtotal_rows reads, left as they are
\* by the mappings and by clean_attendance_summary
ReportColumns(df) ==
    [k \in 1..Len(df) |->
        [employee_id |-> df[k].employee_id, day |-> df[k].day,
         work_status |-> df[k].work_status, time_spent |-> df[k].time_spent]]

\* pd.to_timedelta("HH:MM:SS"), in seconds
pd_to_timedelta(t) == t.hh * 3600 + t.mm * 60 + t.ss

RECURSIVE SumTimeSpent(_)
SumTimeSpent(rows) ==
    IF rows = <<>> THEN 0
    ELSE pd_to_timedelta(Head(rows).time_spent) + SumTimeSpent(Tail(rows))

\* str(subtotal).split(".")[0]: "D days HH:MM:SS"
TimedeltaStr(seconds) ==
    [days |-> seconds \div 86400, hh |-> (seconds % 86400) \div 3600,
     mm |-> (seconds % 3600) \div 60, ss |-> seconds % 60, padded |-> TRUE]

\* the literal "0:00:00" of an employee without worked rows
ZeroTotal == [days |-> 0, hh |-> 0, mm |-> 0, ss |-> 0, padded |-> FALSE]

\* groupby("employee_id", sort=False): the ids in order of first appearance
RECURSIVE FirstSeen(_)
FirstSeen(df) ==
    IF df = <<>> THEN <<>>
    ELSE LET rest == FirstSeen(SubSeq(df, 1, Len(df) - 1))
             e == df[Len(df)].employee_id
         IN  IF e \in SeqRange(rest) THEN rest ELSE Append(rest, e)

\* line 518: days_worked = len(worked_group)
DaysWorked(worked_group) == Len(worked_group)

SubtotalRow(emp_id, group) ==
    LET worked_group == SelectSeq(group, LAMBDA r : r.work_status = "worked")
    IN  [employee_id |-> emp_id, day |-> "Subtotal", work_status |-> "subtotal",
         days_worked |-> DaysWorked(worked_group),
         total_hours |-> IF worked_group /= <<>>
                         THEN TimedeltaStr(SumTimeSpent(worked_group))
                         ELSE ZeroTotal]

\* the rows of every employee followed by the employee's subtotal row
create_subtotal_rows(summary_df) ==
    LET ids == FirstSeen(summary_df)
    IN  Flatten([k \in 1..Len(ids) |->
                    LET group == GroupOf(summary_df, ids[k])
                    IN  Append(group, SubtotalRow(ids[k], group))])

\* generate_attendance_summary after process_attendance_summary returned
generate_attendance_summary(summary_df) ==
    IF summary_df /= <<>>
    THEN create_subtotal_rows(ReportColumns(filter_out_sundays_from_df(summary_df)))
    ELSE summary_df

\* process_attendance_summary as one call: whether it raises, and the records
\* it returns when it does not
process_attendance_summary(att, sdate, edate, names, rows, st) ==
    LET sd == get_shift_mappings(rows)
        rows_worked == Reconcile(att, sd, st)
        classified == [k \in 1..Len(rows_worked) |-> ClassifiedRow(rows_worked[k], sd, st)]
    IN  IF df_att_of(att) = <<>>
        THEN [raised |-> FALSE,
              summary |-> _get_absent_days_fallback(sdate, edate, names, rows)]
        ELSE IF ReconcileRaises(att, sd)
        THEN [raised |-> TRUE, summary |-> <<>>]
        ELSE [raised |-> FALSE,
              summary |-> StableSort(generate_complete_records(classified, sdate, edate,
                                                               names, rows),
                                     "employee_id, day")]

\* ------------------------------------------------------------------- state
VARIABLES
    attendences,         \* the punches passed to process_attendance_summary
    start_date,          \* the reporting range, NaT for None
    end_date,
    user_shift_mapping,  \* rows of the user_shift_mapping table
    employee_names,      \* ids of the employee name mapping table
    settings,            \* the settings table, key -> string
    pc,                  \* position in process_attendance_summary
    shift_dict,          \* get_shift_mappings()
    groups,              \* employee groups of df_att.groupby still to do
    emp,                 \* the group being reconciled
    emp_df_sorted,       \* its punches sorted by timestamp
    i,                   \* cursor of the outer while loop
    ranges,              \* per emitted session, the positions i .. candidate_index
    worked_rows,
    worked_summary,      \* worked_rows with the classification columns
    summary,             \* the returned records
    merged               \* the rows of generate_attendance_summary, subtotals included

vars == <<attendences, start_date, end_date, user_shift_mapping, employee_names, settings,
          pc, shift_dict, groups, emp, emp_df_sorted, i, ranges, worked_rows,
          worked_summary, summary, merged>>

inputs == <<attendences, start_date, end_date, user_shift_mapping, employee_names,
            settings>>

\* ------------------------------------------------------------ input domains
Days == 5..(4 + NumDays)
PunchDays == 5..7
Instants(days, times) == {At(d, t) : d \in days, t \in times}

\* the device of a scan: one device on odd days, the other on even days
DeviceAt(ts) == IF DateOf(ts) % 2 = 1 THEN "DEV1" ELSE "DEV2"
Punch(e, ts) == [employee_id |-> e, timestamp |-> ts, sn |-> DeviceAt(ts)]

SeqsUpTo(S, n) == UNION {[1..k -> S] : k \in 0..n}
Reverse(s) == [k \in 1..Len(s) |-> s[Len(s) + 1 - k]]

\* the batches of at most n punches, oldest first or newest first
PunchLeq(a, b) ==
    \/ a.timestamp < b.timestamp
    \/ a.timestamp = b.timestamp /\ Rank(a.employee_id) <= Rank(b.employee_id)
Batches(S, n) ==
    LET asc == {s \in SeqsUpTo(S, n) : \A k \in 1..(Len(s) - 1) : PunchLeq(s[k], s[k + 1])}
    IN  asc \cup {Reverse(s) : s \in asc}

Night == [shift_start |-> HM(22, 0), shift_end |-> HM(6, 0)]
HalfDay == [shift_start |-> HM(8, 0), shift_end |-> HM(12, 0)]
DayShift == [shift_start |-> HM(8, 0), shift_end |-> HM(17, 0)]
LongDay == [shift_start |-> HM(8, 0), shift_end |-> HM(17, 30)]
\* a shift whose end equals its start, and one whose start cannot be parsed
AllDay == [shift_start |-> HM(8, 0), shift_end |-> HM(8, 0)]
BadStart == [shift_start |-> Unparseable, shift_end |-> HM(17, 0)]

MappingRow(u, sh) ==
    [user_id |-> u, shift_start |-> sh.shift_start, shift_end |-> sh.shift_end]

Settings(cap, grace, type) ==
    [shift_cap_hours |-> cap, late_checkout_grace_minutes |-> grace,
     shift_cap_type |-> type]

PunchTimes == {HM(5, 30), HM(14, 15), HM(22, 30)}

MappingTables ==
    {<<>>, <<MappingRow("E1", Night)>>, <<MappingRow("E1", HalfDay)>>,
     <<MappingRow("default", Night)>>,
     <<MappingRow("default", Night), MappingRow("E1", HalfDay)>>,
     <<MappingRow("E1", AllDay)>>, <<MappingRow("E1", BadStart)>>}

SettingsTables == {Settings(c, "15", t) : c \in {"8", "24"}, t \in {"zero", "normal"}}

InitLocals ==
    /\ pc = "start"
    /\ shift_dict = <<>>
    /\ groups = <<>>
    /\ emp = ""
    /\ emp_df_sorted = <<>>
    /\ i = 1
    /\ ranges = <<>>
    /\ worked_rows = <<>>
    /\ worked_summary = <<>>
    /\ summary = <<>>
    /\ merged = <<>>

\* one employee, a batch of punches, the range taken from the data
Init ==
    /\ attendences \in Batches({Punch("E1", ts) : ts \in Instants(PunchDays, PunchTimes)},
                               MaxPunches)
    /\ start_date = NaT
    /\ end_date = NaT
    /\ user_shift_mapping \in MappingTables
    /\ employee_names = {"E1"}
    /\ settings \in SettingsTables
    /\ InitLocals

\* classification alone, applied to one row as run_time_tests.py does
ClassifyStarts ==
    {At(7, HM(8, 0)), At(7, HM(8, 7)), At(7, HM(8, 10)), At(7, HM(8, 30)),
     At(7, HM(22, 30)), At(6, HM(8, 7))}
ClassifyEnds ==
    {NaT, At(7, HM(5, 30)), At(7, HM(16, 0)), At(7, HM(17, 5)), At(7, HM(17, 30)),
     At(8, HM(1, 30)), At(8, HM(5, 30)), At(8, HM(20, 0))}
ClassifyShiftDicts ==
    {<<>>, [E1 |-> DayShift], [E1 |-> Night], [default |-> LongDay]}
ClassifySettings ==
    {Settings(c, g, t) : c \in {"8", "1"}, g \in {"15", "0"},
                         t \in {"zero", "normal", "", "ze"}}

InitClassify ==
    /\ attendences = <<>>
    /\ start_date = NaT
    /\ end_date = NaT
    /\ user_shift_mapping = <<>>
    /\ employee_names = {}
    /\ settings \in ClassifySettings
    /\ pc = "classify"
    /\ shift_dict \in ClassifyShiftDicts
    /\ groups = <<>>
    /\ emp = ""
    /\ emp_df_sorted = <<>>
    /\ i = 1
    /\ ranges = <<>>
    /\ \E s \in ClassifyStarts, e \in ClassifyEnds :
           worked_rows = <<[employee_id |-> "E1", day |-> DateOf(s), start_time |-> s,
                            end_time |-> e, start_device_sn |-> "DEV1",
                            end_device_sn |-> IF e = NaT THEN "" ELSE "DEV1",
                            work_status |-> "worked"]>>
    /\ worked_summary = <<>>
    /\ summary = <<>>
    /\ merged = <<>>

\* the batch of scripts/_temp_earlyin_test.py and its neighbours: shift
\* 08:00-17:30, punches at 07:40 and 08:10
EarlyInDays == 5..8
EarlyInTimes == {HM(7, 40), HM(8, 10)}

InitEarlyIn ==
    /\ attendences \in Batches({Punch("E1", ts) : ts \in Instants(EarlyInDays, EarlyInTimes)},
                               MaxPunches)
    /\ start_date = NaT
    /\ end_date = NaT
    /\ user_shift_mapping = <<MappingRow("E1", LongDay)>>
    /\ employee_names = {"E1"}
    /\ settings \in {Settings(c, "15", "zero") : c \in {"8", "24"}}
    /\ InitLocals

\* several employees and a reporting range, with a roster
InitCoverage ==
    /\ attendences \in Batches({Punch(e, ts) : e \in {"E1", "E2"},
                                              ts \in Instants(Days, {HM(5, 30), HM(22, 30)})},
                               MaxBatch)
    /\ \E range \in {<<5, 4 + NumDays>>, <<NaT, NaT>>, <<4 + NumDays, 5>>} :
           start_date = range[1] /\ end_date = range[2]
    /\ user_shift_mapping \in {<<>>, <<MappingRow("E1", Night)>>,
                               <<MappingRow("E1", BadStart)>>}
    /\ employee_names \in {{}, {"E1", "E2"}, {"E3"}}
    /\ settings = Settings("8", "15", "zero")
    /\ InitLocals

\* ------------------------------------------------------------------ actions
df_att == df_att_of(attendences)

\* lines 327-340: nothing to process
StartFallback ==
    /\ pc = "start"
    /\ df_att = <<>>
    /\ summary' = _get_absent_days_fallback(start_date, end_date, employee_names,
                                            user_shift_mapping)
    /\ pc' = "done"
    /\ UNCHANGED <<inputs, shift_dict, groups, emp, emp_df_sorted, i, ranges, worked_rows,
                   worked_summary, merged>>

\* lines 342-346: the shift dictionary and the groups, in key order
Start ==
    /\ pc = "start"
    /\ df_att /= <<>>
    /\ shift_dict' = get_shift_mappings(user_shift_mapping)
    /\ groups' = SortedIds({df_att[k].employee_id : k \in 1..Len(df_att)})
    /\ pc' = "group"
    /\ UNCHANGED <<inputs, emp, emp_df_sorted, i, ranges, worked_rows, worked_summary,
                   summary, merged>>

\* lines 346-349: the next group, sorted
NextGroup ==
    /\ pc = "group"
    /\ groups /= <<>>
    /\ emp' = Head(groups)
    /\ groups' = Tail(groups)
    /\ emp_df_sorted' =
           StableSort(GroupOf(df_att, Head(groups)), "timestamp")
    /\ i' = 1
    /\ pc' = "recon"
    /\ UNCHANGED <<inputs, shift_dict, ranges, worked_rows, worked_summary, summary,
                   merged>>

\* lines 350-421: one iteration of the outer while loop; an unparseable time
\* of the resolved shift raises out of the call at line 358
ReconcileStep ==
    /\ pc = "recon"
    /\ i <= Len(emp_df_sorted)
    /\ IF ShiftRaises(ShiftInfo(shift_dict, emp))
       THEN /\ pc' = "raised"
            /\ UNCHANGED <<i, ranges, worked_rows>>
       ELSE LET s == SessionAt(emp, emp_df_sorted, i, shift_dict, settings)
                next_i == NextCursor(i, s.candidate_index)
            IN  /\ worked_rows' = Append(worked_rows, s.row)
                /\ ranges' = Append(ranges, [employee_id |-> emp, first |-> i,
                                             last |-> IF s.candidate_index /= 0
                                                      THEN s.candidate_index ELSE i,
                                             shift_info |-> s.shift_info])
                /\ i' = next_i
                /\ pc' = IF next_i <= Len(emp_df_sorted) THEN "recon"
                         ELSE IF groups /= <<>> THEN "group"
                         ELSE "classify"
    /\ UNCHANGED <<inputs, shift_dict, groups, emp, emp_df_sorted, worked_summary, summary,
                   merged>>

\* lines 423-434: every worked row classified; an unparseable time of the
\* resolved shift raises out of the call at line 105
Classify ==
    /\ pc = "classify"
    /\ IF worked_rows = <<>>
       THEN /\ summary' = _get_absent_days_fallback(start_date, end_date, employee_names,
                                                    user_shift_mapping)
            /\ pc' = "done"
            /\ UNCHANGED worked_summary
       ELSE IF \E k \in 1..Len(worked_rows) : ClassifyRaises(worked_rows[k], shift_dict)
       THEN /\ pc' = "raised"
            /\ UNCHANGED <<worked_summary, summary>>
       ELSE /\ worked_summary' =
                   [k \in 1..Len(worked_rows) |->
                       ClassifiedRow(worked_rows[k], shift_dict, settings)]
            /\ pc' = "complete"
            /\ UNCHANGED summary
    /\ UNCHANGED <<inputs, shift_dict, groups, emp, emp_df_sorted, i, ranges, worked_rows,
                   merged>>

\* lines 436-442: absent days filled in, records sorted by employee and day
Complete ==
    /\ pc = "complete"
    /\ summary' =
           StableSort(generate_complete_records(worked_summary, start_date, end_date,
                                                employee_names, user_shift_mapping),
                      "employee_id, day")
    /\ pc' = "done"
    /\ UNCHANGED <<inputs, shift_dict, groups, emp, emp_df_sorted, i, ranges, worked_rows,
                   worked_summary, merged>>

\* excel_logic.py lines 562-581: Sundays filtered, subtotal rows added
Report ==
    /\ pc = "done"
    /\ merged' = generate_attendance_summary(summary)
    /\ pc' = "reported"
    /\ UNCHANGED <<inputs, shift_dict, groups, emp, emp_df_sorted, i, ranges, worked_rows,
                   worked_summary, summary>>

Next ==
    StartFallback \/ Start \/ NextGroup \/ ReconcileStep \/ Classify \/ Complete \/ Report

Spec == Init /\ [][Next]_vars

SpecCoverage == InitCoverage /\ [][Next]_vars

NextClassify == Classify

SpecClassify == InitClassify /\ [][NextClassify]_vars

SpecEarlyIn == InitEarlyIn /\ [][Next]_vars

\* ===================================================================
\* Properties of reconciliation (lines 346-421), checked on the group that
\* is being, or was last, reconciled.
\* ===================================================================

\* the instant at position q of the sorted punches of the current group
TsAt(q) == emp_df_sorted[q].timestamp
NPunches == Len(emp_df_sorted)

\* the sessions emitted so far for the current group, as positions in ranges
EmpSessions == {k \in 1..Len(ranges) : ranges[k].employee_id = emp}

\* the group has been reconciled completely
GroupDone == emp /= "" /\ pc \in {"group", "classify", "complete", "done", "reported"}

\* the boundary as the specification states it, from the shift times and the
\* numeric settings
SettingCap == IntOf[settings.shift_cap_hours]
SettingGrace == IntOf[settings.late_checkout_grace_minutes]
HasShift(e) == e \in DOMAIN shift_dict \/ "default" \in DOMAIN shift_dict
ShiftOf(e) == IF e \in DOMAIN shift_dict THEN shift_dict[e] ELSE shift_dict["default"]
StatedShiftEnd(day, sh) ==
    IF sh.shift_end <= sh.shift_start
    THEN (day + 1) * 1440 + sh.shift_end
    ELSE day * 1440 + sh.shift_end
StatedCapDeadline(day, sh) == StatedShiftEnd(day, sh) + SettingGrace + 60 * SettingCap
StatedBoundary(e, ts) ==
    IF HasShift(e)
    THEN LET day == ts \div 1440
             cap_dt == StatedCapDeadline(day, ShiftOf(e))
             next_start == (day + 1) * 1440 + ShiftOf(e).shift_start
         IN  IF cap_dt <= next_start THEN cap_dt ELSE next_start
    ELSE ts + 60 * SettingCap

IsSortedByTime(s) == \A k \in 1..(Len(s) - 1) : s[k].timestamp <= s[k + 1].timestamp
CountIn(s, x) == Cardinality({k \in 1..Len(s) : s[k] = x})

\* C1: every punch of an employee is consumed by exactly one session: the
\* sessions are disjoint, contiguous position ranges of the time-sorted punch
\* list (start through checkout, or the start alone) that tile the list from
\* its first position, up to the cursor while the loop runs and to the end of
\* the list once the group is done.
C1_EveryPunchInExactlyOneSession ==
    emp /= "" =>
        /\ IsSortedByTime(emp_df_sorted)
        /\ \A k \in 1..Len(attendences) :
              attendences[k].employee_id = emp =>
                  CountIn(emp_df_sorted, attendences[k]) = CountIn(attendences, attendences[k])
        /\ NPunches = Cardinality({k \in 1..Len(attendences) :
                                      attendences[k].employee_id = emp})
        /\ \A k \in EmpSessions :
              /\ 1 <= ranges[k].first /\ ranges[k].first <= ranges[k].last
              /\ ranges[k].last <= NPunches
              /\ worked_rows[k].start_time = TsAt(ranges[k].first)
              /\ worked_rows[k].end_time =
                     IF ranges[k].last > ranges[k].first THEN TsAt(ranges[k].last) ELSE NaT
              /\ IF k - 1 \in EmpSessions
                 THEN ranges[k].first = ranges[k - 1].last + 1
                 ELSE ranges[k].first = 1
              /\ IF k + 1 \in EmpSessions
                 THEN TRUE
                 ELSE ranges[k].last = i - 1
        /\ (EmpSessions = {}) => i = 1
        /\ GroupDone => i = NPunches + 1

C1_Witness ==
    /\ pc = "classify"
    /\ NPunches = 3
    /\ \E k \in EmpSessions : ranges[k].last = ranges[k].first + 1
    /\ \E k \in EmpSessions : ranges[k].last = ranges[k].first
    /\ attendences /= emp_df_sorted

\* C2: sessions of one employee never overlap: of two consecutive sessions
\* the earlier one's checkout, when present, is not later than the later
\* one's start.
C2_SessionsNeverOverlap ==
    \A k \in 1..(Len(worked_rows) - 1) :
        (/\ worked_rows[k].employee_id = worked_rows[k + 1].employee_id
         /\ worked_rows[k].end_time /= NaT)
        => worked_rows[k].end_time <= worked_rows[k + 1].start_time

C2_Witness ==
    \E k \in 1..(Len(worked_rows) - 1) :
        /\ worked_rows[k].employee_id = worked_rows[k + 1].employee_id
        /\ worked_rows[k].end_time /= NaT
        /\ worked_rows[k].end_time < worked_rows[k + 1].start_time

\* the punches after a session's start that lie at or after its boundary
BeyondBoundary(k) ==
    {q \in (ranges[k].first + 1)..NPunches :
        TsAt(q) >= StatedBoundary(emp, TsAt(ranges[k].first))}

IsSessionStart(q) == \E k \in EmpSessions : ranges[k].first = q

\* C3 as stated: with a resolved shift, a punch at or after the boundary of
\* the session started by st is never that session's checkout, and it is the
\* start of a new session.
C3_BeyondBoundaryStartsSession ==
    (GroupDone /\ HasShift(emp)) =>
        \A k \in EmpSessions : \A q \in BeyondBoundary(k) :
            /\ q /= ranges[k].last
            /\ IsSessionStart(q)

\* C3 as amended: with a resolved shift, no punch at or after the boundary is
\* consumed by the session started by st, and the earliest such punch is the
\* start of a new session; later ones may be checkouts of later sessions.
C3_BeyondBoundaryNotPaired ==
    (GroupDone /\ HasShift(emp)) =>
        \A k \in EmpSessions :
            /\ \A q \in BeyondBoundary(k) : q > ranges[k].last
            /\ BeyondBoundary(k) /= {} =>
                   IsSessionStart(CHOOSE q \in BeyondBoundary(k) :
                                      \A r \in BeyondBoundary(k) : q <= r)

\* a session with a checkout whose next punch lies exactly on the boundary
C3_Witness ==
    /\ GroupDone /\ HasShift(emp)
    /\ \E k \in EmpSessions :
          /\ ranges[k].last > ranges[k].first
          /\ ranges[k].last < NPunches
          /\ TsAt(ranges[k].last + 1) = StatedBoundary(emp, TsAt(ranges[k].first))
          /\ IsSessionStart(ranges[k].last + 1)

\* the punches strictly after the start and strictly before the boundary
InsideBoundary(k) ==
    {q \in 1..NPunches :
        /\ TsAt(q) > TsAt(ranges[k].first)
        /\ TsAt(q) < StatedBoundary(emp, TsAt(ranges[k].first))}

\* C4: the checkout of a session is the latest punch strictly after its
\* start and strictly before its boundary; without such a punch the session
\* has no checkout.
C4_CheckoutIsLatestInsideBoundary ==
    emp /= "" =>
        \A k \in EmpSessions :
            IF InsideBoundary(k) = {}
            THEN worked_rows[k].end_time = NaT
            ELSE /\ worked_rows[k].end_time /= NaT
                 /\ \E q \in InsideBoundary(k) : worked_rows[k].end_time = TsAt(q)
                 /\ \A q \in InsideBoundary(k) : TsAt(q) <= worked_rows[k].end_time

\* a session that absorbs an earlier punch inside the boundary
C4_Witness ==
    /\ emp /= ""
    /\ \E k \in EmpSessions :
          \E q \in InsideBoundary(k) : TsAt(q) < worked_rows[k].end_time

\* ===================================================================
\* Properties of the returned records
\* ===================================================================
WorkedRecords == SelectSeq(summary, LAMBDA r : r.work_status = "worked")

Duration(h, m) == [hh |-> h, mm |-> m, ss |-> 0, padded |-> TRUE]

\* C5: in every worked record that is returned, start_time is strictly
\* earlier than end_time whenever end_time is present, the end_time set by
\* classification included.
C5_StartBeforeEnd ==
    pc = "done" =>
        \A k \in 1..Len(summary) :
            (summary[k].work_status = "worked" /\ summary[k].end_time /= NaT)
            => summary[k].start_time < summary[k].end_time

\* the 22:00-06:00 shift with punches on Saturday 22:30 and Sunday 05:30
MidnightScenario ==
    /\ Len(attendences) = 2
    /\ SeqRange(attendences) =
           {Punch("E1", At(5, HM(22, 30))), Punch("E1", At(6, HM(5, 30)))}
    /\ HasShift("E1")
    /\ ShiftOf("E1") = Night

\* C9 as stated: the scenario yields one session, 7h00m, status normal.
C9_MidnightShiftNormal ==
    (pc = "done" /\ MidnightScenario) =>
        /\ Len(worked_rows) = 1
        /\ Len(WorkedRecords) = 1
        /\ WorkedRecords[1].time_spent = Duration(7, 0)
        /\ WorkedRecords[1].shift_flag = "normal"

\* C9 as amended: the scenario yields one session from 22:30 to 05:30 of
\* 7h00m, and its status is early out, the checkout being before the shift
\* end of 06:00.
C9_MidnightShiftEarlyOut ==
    (pc = "done" /\ MidnightScenario) =>
        /\ Len(worked_rows) = 1
        /\ Len(WorkedRecords) = 1
        /\ WorkedRecords[1].start_time = At(5, HM(22, 30))
        /\ WorkedRecords[1].end_time = At(6, HM(5, 30))
        /\ WorkedRecords[1].day = 5
        /\ WorkedRecords[1].time_spent = Duration(7, 0)
        /\ WorkedRecords[1].shift_flag = "early out"

C9_Witness == pc = "done" /\ MidnightScenario /\ Len(WorkedRecords) = 1

\* ===================================================================
\* Properties of calculate_time_spent_and_flag on one row
\* ===================================================================
Row == worked_rows[1]
Res == worked_summary[1]
Classified == pc = "complete" /\ Len(worked_rows) = 1

\* line 83: an end not after the start is taken on the next day
RowEnd ==
    IF Row.end_time /= NaT /\ Row.end_time <= Row.start_time
    THEN Row.end_time + 1440
    ELSE Row.end_time

ShiftCase == Classified /\ HasShift(Row.employee_id) /\ Weekday(Row.day) /= 6

RowShiftStart == Row.day * 1440 + ShiftOf(Row.employee_id).shift_start
RowShiftEnd == StatedShiftEnd(Row.day, ShiftOf(Row.employee_id))
RowCapDeadline == StatedCapDeadline(Row.day, ShiftOf(Row.employee_id))

RowCapped == RowEnd = NaT \/ RowEnd > RowCapDeadline
RowEarlyOut == RowEnd /= NaT /\ RowEnd < RowShiftEnd
RowLateIn == Row.start_time > RowShiftStart + LateInGraceMinutes
RowOvertime == RowEnd /= NaT /\ RowEnd > RowShiftEnd + SettingGrace /\ ~RowCapped

\* C7: with a resolved shift on a non-off-day the status is the first match
\* of no_checkout (capped), early_out, late_in, overtime, normal; late-in
\* with early-out is early_out, late-in with overtime is late_in.
C7_StatusPrecedence ==
    ShiftCase =>
        /\ Res.shift_flag =
               CASE RowCapped -> "no checkout"
                 [] ~RowCapped /\ RowEarlyOut -> "early out"
                 [] ~RowCapped /\ ~RowEarlyOut /\ RowLateIn -> "late in"
                 [] ~RowCapped /\ ~RowEarlyOut /\ ~RowLateIn /\ RowOvertime -> "overtime"
                 [] OTHER -> "normal"
        /\ (~RowCapped /\ RowLateIn /\ RowEarlyOut) => Res.shift_flag = "early out"
        /\ (~RowCapped /\ RowLateIn /\ RowOvertime) => Res.shift_flag = "late in"

C7_Witness ==
    /\ ShiftCase /\ ~RowCapped /\ RowLateIn /\ RowEarlyOut
    /\ Res.shift_flag = "early out"

TimeSpentMinutes(r) == r.time_spent.hh * 60 + r.time_spent.mm
AtLeastZero(d) == IF d < 0 THEN 0 ELSE d
RowClippedEnd ==
    IF RowEnd /= NaT /\ RowEnd <= RowCapDeadline THEN RowEnd ELSE RowCapDeadline

\* C8 as stated: with a resolved shift, time_spent is 0 when capped under the
\* policy zero, min(end, cap_deadline) - start when capped under the policy
\* normal, and end - start when not capped.
C8_TimeSpent ==
    ShiftCase =>
        /\ Res.time_spent.ss = 0
        /\ (RowCapped /\ settings.shift_cap_type = "zero") =>
               (TimeSpentMinutes(Res) = 0 /\ Res.shift_flag = "no checkout")
        /\ (RowCapped /\ settings.shift_cap_type = "normal") =>
               TimeSpentMinutes(Res) = RowClippedEnd - Row.start_time
        /\ ~RowCapped => TimeSpentMinutes(Res) = RowEnd - Row.start_time

\* C8 as amended: the same, with a negative duration (a cap deadline before
\* the start) reported as 0.
C8_TimeSpentNotNegative ==
    ShiftCase =>
        /\ Res.time_spent.ss = 0
        /\ (RowCapped /\ settings.shift_cap_type = "zero") =>
               (TimeSpentMinutes(Res) = 0 /\ Res.shift_flag = "no checkout")
        /\ (RowCapped /\ settings.shift_cap_type = "normal") =>
               TimeSpentMinutes(Res) = AtLeastZero(RowClippedEnd - Row.start_time)
        /\ ~RowCapped => TimeSpentMinutes(Res) = AtLeastZero(RowEnd - Row.start_time)

\* a capped session under the policy normal whose cap deadline precedes its
\* start, and is reported as 0
C8_Witness ==
    /\ ShiftCase /\ RowCapped
    /\ settings.shift_cap_type = "normal"
    /\ RowCapDeadline < Row.start_time
    /\ TimeSpentMinutes(Res) = 0

\* C10: shift 08:00-17:00, in at 08:07, out at 17:05 within the checkout
\* grace: the status is late_in, the late-arrival threshold being
\* shift_start + 5 minutes.
C10_LateInAfterFiveMinutes ==
    (/\ ShiftCase
     /\ ShiftOf("E1") = DayShift
     /\ Row.start_time = At(7, HM(8, 7))
     /\ Row.end_time = At(7, HM(17, 5))
     /\ SettingGrace >= 5)
    => Res.shift_flag = "late in"

\* ===================================================================
\* Properties of the filled-in report
\* ===================================================================
Roster == employee_names \cup {user_shift_mapping[k].user_id : k \in 1..Len(user_shift_mapping)}

RecordsOf(e, d) == {k \in 1..Len(summary) : summary[k].employee_id = e /\ summary[k].day = d}

\* C6: for every employee of the roster and every non-Sunday day of
\* [start_date, end_date] the returned records hold exactly one record of
\* that employee and day.
C6_Coverage ==
    (pc = "done" /\ start_date /= NaT /\ end_date /= NaT) =>
        \A e \in Roster : \A d \in start_date..end_date :
            Weekday(d) /= 6 => Cardinality(RecordsOf(e, d)) = 1

\* ===================================================================
\* Properties of shift resolution
\* ===================================================================
\* the rows of user_shift_mapping that assign a shift to u
MappingRowsOf(u) == {k \in 1..Len(user_shift_mapping) : user_shift_mapping[k].user_id = u}
AssignedTimes(u) ==
    LET k == CHOOSE m \in MappingRowsOf(u) : \A n \in MappingRowsOf(u) : n <= m
    IN  [shift_start |-> user_shift_mapping[k].shift_start,
         shift_end |-> user_shift_mapping[k].shift_end]

\* the lookup order as stated: own assignment, else the "default" one, else none
Resolved(e) ==
    IF MappingRowsOf(e) /= {} THEN AssignedTimes(e)
    ELSE IF MappingRowsOf("default") /= {} THEN AssignedTimes("default")
    ELSE NoShift
ResolvedDict(e) == IF Resolved(e) = NoShift THEN <<>> ELSE [u \in {e} |-> Resolved(e)]

ShiftSessions == {k \in 1..Len(ranges) : ranges[k].shift_info /= NoShift}

\* C12: a resolved shift anchored to the day of a session (the date of its
\* start in reconciliation, its day column in classification) has its start
\* on that day and its end on the next day exactly when the end time of day
\* is not after the start time of day, so that
\* shift_start_dt < shift_end_dt <= shift_start_dt + 1 day.
C12_ShiftEndAfterStart ==
    \A k \in ShiftSessions :
        \A day \in {DateOf(worked_rows[k].start_time), worked_rows[k].day} :
            LET sh == ranges[k].shift_info
                shift_start_dt == ShiftStartDt(day, sh)
                shift_end_dt == ShiftEndDt(day, sh)
            IN  /\ shift_start_dt = day * 1440 + sh.shift_start
                /\ shift_start_dt \div 1440 = day
                /\ shift_end_dt = IF sh.shift_end <= sh.shift_start
                                  THEN (day + 1) * 1440 + sh.shift_end
                                  ELSE day * 1440 + sh.shift_end
                /\ shift_start_dt < shift_end_dt
                /\ shift_end_dt <= shift_start_dt + 1440

\* a session of a shift whose end equals its start: the end is a full day
\* after the start
C12_Witness ==
    /\ pc = "complete"
    /\ \E k \in ShiftSessions :
           /\ ranges[k].shift_info.shift_end = ranges[k].shift_info.shift_start
           /\ ShiftEndDt(worked_rows[k].day, ranges[k].shift_info) =
                  ShiftStartDt(worked_rows[k].day, ranges[k].shift_info) + 1440

\* ===================================================================
\* Properties of calculate_time_spent_and_flag without a resolved shift
\* ===================================================================
NoShiftCase == Classified /\ ~HasShift(Row.employee_id) /\ Weekday(Row.day) /= 6

\* the session is capped by the generic cap alone
RowCappedNoShift == RowEnd = NaT \/ RowEnd - Row.start_time > 60 * SettingCap

\* C13: without a resolved shift on a non-off-day a session is capped iff
\* its end is absent or end - start > cap_hours; the status is no_checkout
\* when capped and normal otherwise, never late_in, early_out or overtime.
C13_NoShiftCappedOrNormal ==
    NoShiftCase =>
        /\ Res.no_checkout = RowCappedNoShift
        /\ Res.shift_flag = IF RowCappedNoShift THEN "no checkout" ELSE "normal"
        /\ Res.shift_flag \notin {"late in", "early out", "overtime"}
        /\ Res.late_in = FALSE
        /\ Res.early_checkout = FALSE

\* a session with a checkout more than cap_hours after its start
C13_Witness ==
    /\ NoShiftCase
    /\ Row.end_time /= NaT
    /\ Row.end_time - Row.start_time > 60 * SettingCap
    /\ Res.shift_flag = "no checkout"

\* ===================================================================
\* Properties of malformed input
\* ===================================================================
UnparseableTime(sh) == sh.shift_start = Unparseable \/ sh.shift_end = Unparseable

Returned == pc \in {"done", "reported"}

\* C14: when the shift of an employee has an unparseable start or end time,
\* reconciliation and classification do not raise, and the employee's
\* sessions are those of an employee without a shift: boundary
\* start + cap_hours, status no_checkout or normal.
C14_UnparseableShiftAsNoShift ==
    (emp /= "" /\ Resolved(emp) /= NoShift /\ UnparseableTime(Resolved(emp))) =>
        /\ pc /= "raised"
        /\ GroupDone => worked_rows = Reconcile(attendences, <<>>, settings)
        /\ Returned =>
               \A k \in 1..Len(worked_summary) :
                   /\ worked_summary[k] = ClassifiedRow(worked_rows[k], <<>>, settings)
                   /\ worked_summary[k].shift_flag \in {"no checkout", "normal", "weekend"}

HasPunches(e) == \E k \in 1..Len(attendences) : attendences[k].employee_id = e
Malformed(e) == Resolved(e) /= NoShift /\ UnparseableTime(Resolved(e))
WithoutEmployee(att, e) == SelectSeq(att, LAMBDA p : p.employee_id /= e)

\* C15: when the batch holds the punches of an employee with an unparseable
\* shift time and those of another employee, the call does not raise, and
\* it returns for the other employee the records it returns for the batch
\* without the malformed employee.
C15_MalformedEmployeeIsolated ==
    \A bad \in {"E1", "E2"} : \A e \in {"E1", "E2"} \ {bad} :
        (HasPunches(bad) /\ Malformed(bad) /\ HasPunches(e) /\ ~Malformed(e)) =>
            /\ pc /= "raised"
            /\ Returned =>
                   GroupOf(summary, e) =
                       GroupOf(process_attendance_summary(
                                   WithoutEmployee(attendences, bad), start_date, end_date,
                                   employee_names, user_shift_mapping, settings).summary, e)

\* ===================================================================
\* Properties of the reporting range
\* ===================================================================
ReversedRange == start_date /= NaT /\ end_date /= NaT /\ end_date < start_date

\* C16: when the requested end date is before the start date the call
\* surfaces an error to the caller: it never returns a result, empty or
\* partial.
C16_ReversedRangeIsAnError ==
    ReversedRange => ~Returned

\* ===================================================================
\* Properties of the off-day and of the subtotals
\* ===================================================================
SubtotalRows == SelectSeq(merged, LAMBDA r : r.work_status = "subtotal")
DayRows == SelectSeq(merged, LAMBDA r : r.work_status /= "subtotal")

\* the classified sessions of an employee that are not on a Sunday
NonSundaySessions(e) ==
    SelectSeq(worked_summary, LAMBDA r : r.employee_id = e /\ Weekday(r.day) /= 6)
SundaySessions(e) ==
    SelectSeq(worked_summary, LAMBDA r : r.employee_id = e /\ Weekday(r.day) = 6)

TotalSeconds(t) == t.days * 86400 + t.hh * 3600 + t.mm * 60 + t.ss

\* C17: no record returned by process_attendance_summary, worked or absent,
\* has a Sunday as its day, no day row of the report has, and the subtotal
\* of an employee is made of the employee's sessions outside Sundays only.
C17_SundayExcluded ==
    /\ Returned => \A k \in 1..Len(summary) : Weekday(summary[k].day) /= 6
    /\ pc = "reported" =>
           /\ \A k \in 1..Len(DayRows) : Weekday(DayRows[k].day) /= 6
           /\ \A k \in 1..Len(SubtotalRows) :
                  LET r == SubtotalRows[k]
                  IN  /\ TotalSeconds(r.total_hours) =
                             SumTimeSpent(NonSundaySessions(r.employee_id))
                      /\ r.days_worked <= Len(NonSundaySessions(r.employee_id))

\* an employee with a Sunday session of non-zero duration and a subtotal
C17_Witness ==
    /\ pc = "reported"
    /\ \E k \in 1..Len(SubtotalRows) :
           /\ SumTimeSpent(SundaySessions(SubtotalRows[k].employee_id)) > 0
           /\ SubtotalRows[k].days_worked > 0

\* the worked day rows of an employee in the report
WorkedDayRows(e) ==
    SelectSeq(DayRows, LAMBDA r : r.employee_id = e /\ r.work_status = "worked")
DistinctDays(rows) == {rows[k].day : k \in 1..Len(rows)}

\* C18: the subtotal of an employee has total_hours equal to the sum of
\* time_spent over the employee's worked records, and days_worked equal to
\* the number of distinct days with at least one worked record.
C18_SubtotalOfWorkedRecords ==
    pc = "reported" =>
        \A k \in 1..Len(SubtotalRows) :
            LET r == SubtotalRows[k]
            IN  /\ TotalSeconds(r.total_hours) = SumTimeSpent(WorkedDayRows(r.employee_id))
                /\ r.days_worked = Cardinality(DistinctDays(WorkedDayRows(r.employee_id)))

\* ===================================================================
\* Properties relating two runs of reconciliation
\* ===================================================================
ReconciliationDone == pc \in {"classify", "complete", "done", "reported"}

\* start, end, day and devices of a session
SessionOf(r) ==
    [employee_id |-> r.employee_id, day |-> r.day, start_time |-> r.start_time,
     end_time |-> r.end_time, start_device_sn |-> r.start_device_sn,
     end_device_sn |-> r.end_device_sn]
SessionsOf(rows) == [k \in 1..Len(rows) |-> SessionOf(rows[k])]

RowsOfEmployee(rows, e) == SelectSeq(rows, LAMBDA r : r.employee_id = e)

\* start, end and day of a session
SessionTimes(rows) ==
    [k \in 1..Len(rows) |->
        [start_time |-> rows[k].start_time, end_time |-> rows[k].end_time,
         day |-> rows[k].day]]

\* C20: the sessions (start, end, day) reconciled for an employee in a batch
\* are those reconciled from that employee's punches alone, whatever punches
\* of other employees the batch holds.
C20_EmployeesIndependent ==
    ReconciliationDone =>
        \A e \in {"E1", "E2"} :
            SessionTimes(RowsOfEmployee(worked_rows, e)) =
                SessionTimes(Reconcile(RowsOfEmployee(attendences, e),
                                       get_shift_mappings(user_shift_mapping), settings))

\* a session of E1 without checkout while a punch of E2 lies after its start
\* and before its boundary
C20_Witness ==
    /\ ReconciliationDone
    /\ \E k \in 1..Len(worked_rows) : \E q \in 1..Len(attendences) :
           /\ worked_rows[k].employee_id = "E1"
           /\ worked_rows[k].end_time = NaT
           /\ attendences[q].employee_id = "E2"
           /\ attendences[q].timestamp > worked_rows[k].start_time
           /\ attendences[q].timestamp <
                  BoundaryDt(worked_rows[k].start_time, ShiftInfo(shift_dict, "E1"), settings)

\* ===================================================================
\* Properties of the boundary between the sessions of consecutive days
\* ===================================================================
\* minutes before the shift start within which a check-in is an early check-in
EarlyCheckinMinutes == 30

\* the punch at position q is the only punch of its day
SinglePunchOnDay(q) ==
    \A r \in 1..NPunches : DateOf(TsAt(r)) = DateOf(TsAt(q)) => r = q

\* the punch at position q is shortly before the shift start of its own day
EarlyCheckIn(q) ==
    LET shift_start_dt == DateOf(TsAt(q)) * 1440 + ShiftOf(emp).shift_start
    IN  TsAt(q) < shift_start_dt /\ TsAt(q) >= shift_start_dt - EarlyCheckinMinutes

SessionStartedAt(q) == CHOOSE k \in EmpSessions : ranges[k].first = q

\* C21: with an assigned shift, when a session is started by the single
\* punch of day D and the next punch is an early check-in of day D+1, the
\* punch of day D+1 starts a new session and the session of day D has no
\* checkout.
C21_EarlyCheckInStartsNewSession ==
    (GroupDone /\ HasShift(emp)) =>
        \A q \in 1..(NPunches - 1) :
            (/\ IsSessionStart(q)
             /\ SinglePunchOnDay(q)
             /\ DateOf(TsAt(q + 1)) = DateOf(TsAt(q)) + 1
             /\ EarlyCheckIn(q + 1))
            => /\ IsSessionStart(q + 1)
               /\ worked_rows[SessionStartedAt(q)].end_time = NaT

\* ===================================================================
\* Further properties of calculate_time_spent_and_flag
\* ===================================================================
\* a checkout after the overtime cutoff and not after the cap deadline
RowLateCheckout ==
    RowEnd /= NaT /\ RowEnd > RowShiftEnd + SettingGrace /\ RowEnd <= RowCapDeadline

\* C22: with a resolved shift, a checkout after shift_end + grace and not
\* after the cap deadline counts the full end - start as time_spent and is
\* not flagged no_checkout; a checkout after the cap deadline is capped.
C22_LateCheckoutCountsInFull ==
    ShiftCase =>
        /\ RowLateCheckout =>
               /\ TimeSpentMinutes(Res) = RowEnd - Row.start_time
               /\ Res.no_checkout = FALSE
               /\ Res.shift_flag /= "no checkout"
               /\ Res.end_time = RowEnd
        /\ (RowEnd /= NaT /\ RowEnd > RowCapDeadline) =>
               /\ Res.no_checkout = TRUE
               /\ Res.shift_flag = "no checkout"

\* start 08:00, shift end 17:30, checkout on the next day at 01:30
C22_Witness ==
    /\ ShiftCase /\ RowLateCheckout
    /\ ShiftOf(Row.employee_id) = LongDay
    /\ Row.start_time = At(7, HM(8, 0))
    /\ Row.end_time = At(8, HM(1, 30))
    /\ Res.time_spent = Duration(17, 30)
    /\ Res.no_checkout = FALSE

\* C23: with a resolved shift, a capped session contributes zero time
\* exactly when shift_cap_type equals zero; for every other value, normal,
\* the empty string and a fragment of the word zero included, it contributes
\* the clipped duration.
C23_ZeroOnlyWhenTypeIsZero ==
    (ShiftCase /\ RowCapped) =>
        TimeSpentMinutes(Res) =
            IF settings.shift_cap_type = "zero"
            THEN 0
            ELSE AtLeastZero(RowClippedEnd - Row.start_time)

\* ===================================================================
\* Termination of reconciliation
\* ===================================================================
\* an iteration of the outer loop that does not raise emits one session and
\* moves the cursor forward
IterationAdvances ==
    (pc = "recon" /\ pc' /= "raised") =>
        /\ i' >= i + 1
        /\ Len(worked_rows') = Len(worked_rows) + 1

ReconciliationOver == pc \notin {"start", "group", "recon"}

\* the punches no iteration has consumed yet: those of the groups still to
\* do and those at or after the cursor of the group being reconciled
Unconsumed ==
    IF pc = "start" THEN Len(df_att)
    ELSE Cardinality({k \in 1..Len(df_att) :
                         \E g \in 1..Len(groups) : df_att[k].employee_id = groups[g]})
         + (IF pc = "recon" THEN Len(emp_df_sorted) - i + 1 ELSE 0)

\* the variant of the reconciliation: twice the unconsumed punches plus the
\* steps left before the next iteration
Variant ==
    IF ReconciliationOver THEN 0
    ELSE 2 * Unconsumed + (CASE pc = "start" -> 2 [] pc = "group" -> 1 [] OTHER -> 0)

\* while reconciliation is not over a step is possible and the loop
\* condition holds
CanStep ==
    /\ pc = "group" => groups /= <<>>
    /\ pc = "recon" => i <= Len(emp_df_sorted)

\* C24: every iteration of the outer loop emits exactly one session and
\* advances the cursor by at least one punch, the sessions of an employee
\* are never more than the employee's punches, and reconciliation of the
\* batch comes to an end: a natural-number variant strictly decreases with
\* every step until reconciliation is over, and a step is always possible
\* until then.
C24_ReconciliationTerminates ==
    /\ [][IterationAdvances]_vars
    /\ [](Cardinality(EmpSessions) <= NPunches)
    /\ [](Variant \in Nat /\ CanStep)
    /\ [][~ReconciliationOver => Variant' < Variant]_vars

\* a group of three punches reconciled into two sessions
C24_Witness ==
    /\ GroupDone
    /\ NPunches = 3
    /\ Cardinality(EmpSessions) = 2

\* ===================================================================
\* Properties of the absent records
\* ===================================================================
WorkedEmployees == {worked_summary[k].employee_id : k \in 1..Len(worked_summary)}

\* the days of the reporting range: the range given, else the span of the
\* worked days
ReportingDays ==
    IF start_date /= NaT /\ end_date /= NaT THEN start_date..end_date
    ELSE {d \in Days : /\ \E k \in 1..Len(worked_summary) : worked_summary[k].day <= d
                       /\ \E k \in 1..Len(worked_summary) : worked_summary[k].day >= d}

SessionsOn(e, d) ==
    {k \in 1..Len(worked_summary) :
        worked_summary[k].employee_id = e /\ worked_summary[k].day = d}

AbsentOn(e, d) ==
    {k \in 1..Len(summary) :
        /\ summary[k].employee_id = e
        /\ summary[k].work_status = "absent"
        /\ summary[k].day = d}

IsSynthesizedAbsent(r) ==
    /\ r.work_status = "absent" /\ r.shift_flag = "absent"
    /\ r.time_spent = ZeroLiteral
    /\ r.start_time = NaT /\ r.end_time = NaT
    /\ r.start_device_sn = "" /\ r.end_device_sn = ""

\* C25: for every employee with a worked session and every non-Sunday day
\* of the reporting range, a day without a session of the employee has
\* exactly one record, the synthesized absent record, and a day with a
\* session has no absent record.
C25_AbsentDaysFilled ==
    (Returned /\ worked_summary /= <<>>) =>
        \A e \in WorkedEmployees : \A d \in ReportingDays :
            Weekday(d) /= 6 =>
                IF SessionsOn(e, d) = {}
                THEN /\ Cardinality(AbsentOn(e, d)) = 1
                     /\ \A k \in 1..Len(summary) :
                            (summary[k].employee_id = e /\ summary[k].day = d)
                                => IsSynthesizedAbsent(summary[k])
                ELSE AbsentOn(e, d) = {}

\* a returned report of an employee who worked on Saturday and was absent
\* on Monday, beside an employee who worked on Monday
C25_Witness ==
    /\ Returned
    /\ start_date = 5 /\ end_date = 7
    /\ SessionsOn("E1", 5) /= {} /\ SessionsOn("E1", 7) = {}
    /\ SessionsOn("E2", 7) /= {}
    /\ AbsentOn("E1", 7) /= {}

\* ===================================================================
\* Properties of reconciliation and classification together
\* ===================================================================
SessionsClassified == pc \in {"complete", "done", "reported"} /\ worked_summary /= <<>>

\* the cap deadline classification computes for a session (lines 130, 181)
CapDeadlineOf(row) ==
    LET sh == ShiftInfo(shift_dict, row.employee_id)
        cg == CapAndGrace(settings)
    IN  IF sh /= NoShift
        THEN ShiftEndDt(row.day, sh) + Minutes(cg.grace_minutes) + Hours(cg.cap_hours)
        ELSE row.start_time + Hours(CapOnly(settings))

\* C26: a session of reconciliation classified with the same shift and
\* settings is capped (no_checkout set, and off Sundays status no checkout)
\* exactly when its checkout is absent; a paired checkout is kept by
\* classification and is not later than the cap deadline, with a resolved
\* shift and without one.
C26_CappedIffCheckoutAbsent ==
    SessionsClassified =>
        \A k \in 1..Len(worked_summary) :
            /\ worked_summary[k].no_checkout = (worked_rows[k].end_time = NaT)
            /\ ~is_weekend(worked_rows[k].day) =>
                   ((worked_summary[k].shift_flag = "no checkout")
                        = (worked_rows[k].end_time = NaT))
            /\ worked_rows[k].end_time /= NaT =>
                   /\ worked_rows[k].end_time <= CapDeadlineOf(worked_rows[k])
                   /\ worked_summary[k].end_time = worked_rows[k].end_time

\* a paired session with a resolved shift and one without a shift, both
\* classified, beside a session left without checkout
C26_Witness ==
    /\ SessionsClassified
    /\ \E k \in 1..Len(worked_summary) :
           /\ worked_rows[k].end_time /= NaT
           /\ ~is_weekend(worked_rows[k].day)
           /\ ~worked_summary[k].no_checkout
    /\ \E k \in 1..Len(worked_summary) :
           /\ worked_rows[k].end_time = NaT
           /\ worked_summary[k].no_checkout

\* a classified session of an employee with a resolved shift whose start is
\* at or after the boundary computed for its own day
StartsBeyondOwnBoundary(k) ==
    /\ HasShift(worked_rows[k].employee_id)
    /\ worked_rows[k].start_time
           >= StatedBoundary(worked_rows[k].employee_id, worked_rows[k].start_time)

LaterPunchOfEmployee(k) ==
    \E q \in 1..Len(df_att) :
        /\ df_att[q].employee_id = worked_rows[k].employee_id
        /\ df_att[q].timestamp > worked_rows[k].start_time

\* C27: with a resolved shift, a session whose start is at or after
\* min(shift_end + grace + cap, shift_start + 1 day) of its own day has no
\* checkout whatever later punches exist, and is classified with no_checkout
\* set (off Sundays with the status no checkout).
C27_StartBeyondBoundaryStaysOpen ==
    SessionsClassified =>
        \A k \in 1..Len(worked_summary) :
            StartsBeyondOwnBoundary(k) =>
                /\ worked_rows[k].end_time = NaT
                /\ worked_rows[k].end_device_sn = ""
                /\ worked_summary[k].no_checkout
                /\ ~is_weekend(worked_rows[k].day) =>
                       worked_summary[k].shift_flag = "no checkout"

\* such a session, off Sundays, with a later punch of the same employee
C27_Witness ==
    /\ SessionsClassified
    /\ \E k \in 1..Len(worked_summary) :
           /\ StartsBeyondOwnBoundary(k)
           /\ LaterPunchOfEmployee(k)
           /\ ~is_weekend(worked_rows[k].day)
           /\ worked_summary[k].shift_flag = "no checkout"

\* ===================================================================
\* Properties of the returned duration
\* ===================================================================
\* C28: the time_spent of calculate_time_spent_and_flag has hours at least
\* zero and minutes and seconds within 0..59 for every start, end, shift and
\* settings, and a capped session whose cap deadline precedes its start is
\* reported with 0:00:00.
C28_TimeSpentNeverNegative ==
    Classified =>
        /\ Res.time_spent.hh >= 0
        /\ Res.time_spent.mm \in 0..59
        /\ Res.time_spent.ss \in 0..59
        /\ (ShiftCase /\ RowCapped /\ RowCapDeadline < Row.start_time) =>
               Res.time_spent = ZeroLiteral

\* a checkout beyond a cap deadline that precedes the start, under the
\* policy that clips the duration
C28_Witness ==
    /\ ShiftCase
    /\ Row.end_time /= NaT
    /\ RowEnd > RowCapDeadline
    /\ RowCapDeadline < Row.start_time
    /\ settings.shift_cap_type = "normal"
    /\ Res.time_spent = ZeroLiteral

\* ===================================================================
\* Properties of the settings read without a resolved shift
\* ===================================================================
\* the classification of the same session with shift_cap_type set to t
ResWithCapType(t) ==
    calculate_time_spent_and_flag(Row, shift_dict, [settings EXCEPT !.shift_cap_type = t])

C30_RecordedEndBeforeNextStart ==
    Returned =>
        \A a \in 1..Len(WorkedRecords) : \A b \in 1..Len(WorkedRecords) :
            (/\ WorkedRecords[a].employee_id = WorkedRecords[b].employee_id
             /\ WorkedRecords[a].start_time < WorkedRecords[b].start_time
             /\ WorkedRecords[a].end_time /= NaT)
            => WorkedRecords[a].end_time <= WorkedRecords[b].start_time

====
